---------------------------- MODULE Spec2Model ----------------------------
(***************************************************************************)
(* A model of the skill validator (scripts/validate_skills.py) and of the  *)
(* catalog generator (scripts/generate_catalog.py).                        *)
(*                                                                         *)
(* A Python str is a sequence of one-character strings, a list a sequence, *)
(* an Optional value a sequence of length 0 (None) or 1 (the value).       *)
(***************************************************************************)
EXTENDS Integers, Sequences, FiniteSets, TLC

VARIABLES
    fs,        \* the SKILL.md files under ROOT: directory -> [bytes, marketplace]
    artifact,  \* the bytes of skills.json, or None when the file is missing
    arg,       \* the argument of the function being called
    ret        \* what the last call returned, raised or exited with

vars == <<fs, artifact, arg, ret>>

None == <<>>
Some(v) == <<v>>

\* Body applied to a value that is computed once
With(value, Body(_)) == CHOOSE out \in {Body(x) : x \in {value}} : TRUE

-----------------------------------------------------------------------------
(* Python str operations *)

\* printable ASCII in code point order: 32..95 and 97..126
ASCII_32 ==
  <<" ", "!", "\"", "#", "$", "%", "&", "'", "(", ")", "*", "+", ",", "-", ".", "/",
    "0", "1", "2", "3", "4", "5", "6", "7", "8", "9", ":", ";", "<", "=", ">", "?",
    "@", "A", "B", "C", "D", "E", "F", "G", "H", "I", "J", "K", "L", "M", "N", "O",
    "P", "Q", "R", "S", "T", "U", "V", "W", "X", "Y", "Z", "[", "\\", "]", "^", "_">>

ASCII_97 ==
  <<"a", "b", "c", "d", "e", "f", "g", "h", "i", "j", "k", "l", "m", "n", "o",
    "p", "q", "r", "s", "t", "u", "v", "w", "x", "y", "z", "{", "|", "}", "~">>

\* ord(c)
Ord(c) ==
  IF c = "\t" THEN 9
  ELSE IF c = "\n" THEN 10
  ELSE IF c = "\r" THEN 13
  ELSE IF \E i \in 1..Len(ASCII_32) : ASCII_32[i] = c
       THEN 31 + (CHOOSE i \in 1..Len(ASCII_32) : ASCII_32[i] = c)
       ELSE 96 + (CHOOSE i \in 1..Len(ASCII_97) : ASCII_97[i] = c)

Lower == {ASCII_97[i] : i \in 1..26}
Upper == {ASCII_32[i] : i \in 34..59}
Digit == {ASCII_32[i] : i \in 17..26}

\* the characters str.strip() removes, among those the model uses
Whitespace == {" ", "\t", "\n", "\r"}

RECURSIVE LStrip(_)
LStrip(s) == IF s # <<>> /\ s[1] \in Whitespace THEN LStrip(Tail(s)) ELSE s

RECURSIVE RStrip(_)
RStrip(s) ==
  IF s # <<>> /\ s[Len(s)] \in Whitespace THEN RStrip(SubSeq(s, 1, Len(s) - 1)) ELSE s

\* str.strip()
Strip(s) == RStrip(LStrip(s))

StartsWith(s, c) == Len(s) >= 1 /\ s[1] = c
EndsWith(s, c) == Len(s) >= 1 /\ s[Len(s)] = c

\* line.startswith((" ", "\t"))
Indented(line) == StartsWith(line, " ") \/ StartsWith(line, "\t")

Contains(s, c) == \E i \in 1..Len(s) : s[i] = c

\* index of the first c in s; s must contain c
Find(s, c) ==
  LET at == {i \in 1..Len(s) : s[i] = c}
  IN  CHOOSE i \in at : \A j \in at : i <= j

\* a < b as Python compares str: by code point, a proper prefix first
RECURSIVE StrLess(_, _)
StrLess(a, b) ==
  IF b = <<>> THEN FALSE
  ELSE IF a = <<>> THEN TRUE
  ELSE IF Head(a) # Head(b) THEN Ord(Head(a)) < Ord(Head(b))
  ELSE StrLess(Tail(a), Tail(b))

\* c repeated n times
Rep(c, n) == [i \in 1..n |-> c]

\* sep.join(parts)
RECURSIVE Join(_, _)
Join(parts, sep) ==
  IF Len(parts) = 0 THEN <<>>
  ELSE IF Len(parts) = 1 THEN parts[1]
  ELSE parts[1] \o sep \o Join(Tail(parts), sep)

\* what reading in text mode does to line ends: "\r\n" and "\r" become "\n"
RECURSIVE TranslateNewlines(_)
TranslateNewlines(t) ==
  IF ~Contains(t, "\r") THEN t
  ELSE LET i == Find(t, "\r")
           next == IF i < Len(t) /\ t[i + 1] = "\n" THEN i + 2 ELSE i + 1
       IN  SubSeq(t, 1, i - 1) \o <<"\n">> \o TranslateNewlines(SubSeq(t, next, Len(t)))

\* str.splitlines(), for the line ends left after TranslateNewlines
RECURSIVE SplitLines(_)
SplitLines(t) ==
  IF t = <<>> THEN <<>>
  ELSE IF ~Contains(t, "\n") THEN <<t>>
  ELSE LET i == Find(t, "\n")
       IN  <<SubSeq(t, 1, i - 1)>> \o SplitLines(SubSeq(t, i + 1, Len(t)))

-----------------------------------------------------------------------------
(* validate_skills.py *)

MAX_NAME_LENGTH == 64
MAX_DESC_LENGTH == 1024
MAX_COMPAT_LENGTH == 500

Marker == <<"-", "-", "-">>

ErrOpening == "Missing opening frontmatter delimiter '---' on first line"
ErrClosing == "Missing closing frontmatter delimiter '---'"

IsMarker(line) == Strip(line) = Marker

\* a variant that takes the last marker line as the closing one
parse_frontmatter_last(lines) ==
  IF lines = <<>> \/ ~IsMarker(lines[1])
  THEN [parsed |-> None, err |-> Some(ErrOpening)]
  ELSE LET found == {idx \in 2..Len(lines) : IsMarker(lines[idx])}
       IN  IF found = {}
           THEN [parsed |-> None, err |-> Some(ErrClosing)]
           ELSE LET end_idx == CHOOSE i \in found : \A j \in found : i >= j
                IN  [parsed |-> Some([frontmatter_lines |-> SubSeq(lines, 2, end_idx - 1),
                                      body_lines |-> SubSeq(lines, end_idx + 1, Len(lines))]),
                     err |-> None]

\* indices are 1-based here: Python's lines[0] is lines[1]
parse_frontmatter(lines) ==
  IF lines = <<>> \/ ~IsMarker(lines[1])
  THEN [parsed |-> None, err |-> Some(ErrOpening)]
  ELSE LET found == {idx \in 2..Len(lines) : IsMarker(lines[idx])}
       IN  IF found = {}
           THEN [parsed |-> None, err |-> Some(ErrClosing)]
           ELSE LET end_idx == CHOOSE i \in found : \A j \in found : i <= j
                IN  [parsed |-> Some([frontmatter_lines |-> SubSeq(lines, 2, end_idx - 1),
                                      body_lines |-> SubSeq(lines, end_idx + 1, Len(lines))]),
                     err |-> None]

normalize_value(value) ==
  IF value \in {<<>>, <<"|">>, <<">">>, <<"|", "-">>, <<">", "-">>} THEN None
  ELSE IF \/ StartsWith(value, "\"") /\ EndsWith(value, "\"")
          \/ StartsWith(value, "'") /\ EndsWith(value, "'")
       THEN Some(SubSeq(value, 2, Len(value) - 1))
       ELSE Some(value)

\* "not value" for an Optional[str]: None or the empty string
Falsy(value) == value = None \/ value[1] = <<>>

\* the characters of [A-Za-z0-9_-]
KeyChars == Lower \cup Upper \cup Digit \cup {"_", "-"}

\* the length of the longest prefix of key characters: what ([A-Za-z0-9_-]+) takes
RECURSIVE KeyLen(_)
KeyLen(line) ==
  IF line # <<>> /\ line[1] \in KeyChars THEN 1 + KeyLen(Tail(line)) ELSE 0

\* re.match(r"^([A-Za-z0-9_-]+):\s*(.*)$", line): None, or (group 1, group 2)
MatchField(line) ==
  LET k == KeyLen(line)
  IN  IF k = 0 \/ Len(line) = k \/ line[k + 1] # ":" THEN None
      ELSE LET rest == LStrip(SubSeq(line, k + 2, Len(line)))
               value == IF EndsWith(rest, "\n") THEN SubSeq(rest, 1, Len(rest) - 1)
                        ELSE rest
           IN  IF Contains(value, "\n") THEN None
               ELSE Some([key |-> SubSeq(line, 1, k), value |-> value])

\* the lines of the block that set a field
FieldLines(frontmatter_lines) ==
  {i \in 1..Len(frontmatter_lines) :
     /\ Strip(frontmatter_lines[i]) # <<>>
     /\ ~Indented(frontmatter_lines[i])
     /\ MatchField(frontmatter_lines[i]) # None}

\* fields maps each key to the normalized value of its last line
parse_frontmatter_fields(frontmatter_lines) ==
  LET at == FieldLines(frontmatter_lines)
      KeyAt(i) == MatchField(frontmatter_lines[i])[1].key
      present == {KeyAt(i) : i \in at}
      LastOf(key) == CHOOSE i \in at :
                       /\ KeyAt(i) = key
                       /\ \A j \in at : KeyAt(j) = key => j <= i
  IN  [fields |-> [key \in present |->
                     normalize_value(Strip(MatchField(frontmatter_lines[LastOf(key)])[1].value))],
       present |-> present]

\* fields.get(key)
Get(fields, key) == IF key \in DOMAIN fields THEN fields[key] ELSE None

s_name == <<"n", "a", "m", "e">>
s_description == <<"d", "e", "s", "c", "r", "i", "p", "t", "i", "o", "n">>
s_compatibility == <<"c", "o", "m", "p", "a", "t", "i", "b", "i", "l", "i", "t", "y">>
s_license == <<"l", "i", "c", "e", "n", "s", "e">>
s_version == <<"v", "e", "r", "s", "i", "o", "n">>
s_metadata == <<"m", "e", "t", "a", "d", "a", "t", "a">>

NameChars == Lower \cup Digit

\* NAME_PATTERN.match(value), ^[a-z0-9]+(?:-[a-z0-9]+)*$ : segments of lowercase
\* letters and digits joined by single hyphens ($ also matches before a final "\n")
NAME_PATTERN(value) ==
  LET v == IF EndsWith(value, "\n") THEN SubSeq(value, 1, Len(value) - 1) ELSE value
  IN  /\ v # <<>>
      /\ \A i \in 1..Len(v) : v[i] \in NameChars \cup {"-"}
      /\ v[1] # "-"
      /\ v[Len(v)] # "-"
      /\ \A i \in 1..(Len(v) - 1) : ~(v[i] = "-" /\ v[i + 1] = "-")

ErrRead == "Failed to read file"
ErrNameMissing == "Frontmatter missing required field: name"
ErrNameEmpty == "Frontmatter field 'name' must be a non-empty string"
ErrNameLength == "Frontmatter field 'name' exceeds 64 chars"
ErrNameFormat ==
  "Frontmatter field 'name' must be lowercase letters, numbers, and single hyphens only"
ErrNameDirectory == "Frontmatter field 'name' must match the parent directory name"
ErrDescMissing == "Frontmatter missing required field: description"
ErrDescEmpty == "Frontmatter field 'description' must be a non-empty string"
ErrDescLength == "Frontmatter field 'description' exceeds 1024 chars"
ErrCompatEmpty == "Frontmatter field 'compatibility' must be a non-empty string"
ErrCompatLength == "Frontmatter field 'compatibility' exceeds 500 chars"
ErrBody == "Missing markdown content after frontmatter"

\* a file's bytes that do not decode as UTF-8
Undecodable == None

\* Path.read_text(encoding="utf-8") of the bytes: None when decoding raises
read_text(bytes) == IF bytes = Undecodable THEN None ELSE Some(TranslateNewlines(bytes[1]))

\* a variant that takes the first component of the path, not the last
ParentName_first(dir) == dir[1]

\* path.parent.name of <directory>/SKILL.md
ParentName(dir) == dir[Len(dir)]

If(cond, errors) == IF cond THEN errors ELSE <<>>

\* the errors of the name rule
NameErrors(fields, present, dir) ==
  LET name_value == Get(fields, s_name)
  IN  IF s_name \notin present THEN <<ErrNameMissing>>
      ELSE IF Falsy(name_value) THEN <<ErrNameEmpty>>
      ELSE If(Len(name_value[1]) > MAX_NAME_LENGTH, <<ErrNameLength>>)
           \o If(~NAME_PATTERN(name_value[1]), <<ErrNameFormat>>)
           \o If(ParentName(dir) # name_value[1], <<ErrNameDirectory>>)

DescriptionErrors(fields, present) ==
  LET description_value == Get(fields, s_description)
  IN  IF s_description \notin present THEN <<ErrDescMissing>>
      ELSE IF Falsy(description_value) THEN <<ErrDescEmpty>>
      ELSE If(Len(description_value[1]) > MAX_DESC_LENGTH, <<ErrDescLength>>)

CompatibilityErrors(fields, present) ==
  LET compatibility_value == Get(fields, s_compatibility)
  IN  IF s_compatibility \notin present THEN <<>>
      ELSE IF Falsy(compatibility_value) THEN <<ErrCompatEmpty>>
      ELSE If(Len(compatibility_value[1]) > MAX_COMPAT_LENGTH, <<ErrCompatLength>>)

BodyErrors(body_lines) ==
  If(Strip(Join(body_lines, <<"\n">>)) = <<>>, <<ErrBody>>)

\* a variant that returns at the first rule that fails
validate_skill_first(dir, bytes) ==
  LET text == read_text(bytes)
  IN  IF text = None THEN <<ErrRead>>
      ELSE LET got == parse_frontmatter(SplitLines(text[1]))
           IN  IF got.err # None THEN <<got.err[1]>>
               ELSE LET ff == parse_frontmatter_fields(got.parsed[1].frontmatter_lines)
                        all == NameErrors(ff.fields, ff.present, dir)
                               \o DescriptionErrors(ff.fields, ff.present)
                               \o CompatibilityErrors(ff.fields, ff.present)
                               \o BodyErrors(got.parsed[1].body_lines)
                    IN  SubSeq(all, 1, 1)

\* validate_skill(path), for path = dir/SKILL.md holding bytes
validate_skill(dir, bytes) ==
  LET text == read_text(bytes)
  IN  IF text = None THEN <<ErrRead>>
      ELSE LET got == parse_frontmatter(SplitLines(text[1]))
           IN  IF got.err # None THEN <<got.err[1]>>
               ELSE LET ff == parse_frontmatter_fields(got.parsed[1].frontmatter_lines)
                    IN  NameErrors(ff.fields, ff.present, dir)
                        \o DescriptionErrors(ff.fields, ff.present)
                        \o CompatibilityErrors(ff.fields, ff.present)
                        \o BodyErrors(got.parsed[1].body_lines)

-----------------------------------------------------------------------------
(* generate_catalog.py *)

\* line.strip().split(":", 1) of a line that contains ":"
SplitColon(line) ==
  LET t == Strip(line)
      i == Find(t, ":")
  IN  [key |-> SubSeq(t, 1, i - 1), raw_value |-> SubSeq(t, i + 1, Len(t))]

\* the loop of parse_metadata_version from line i on, with its flag in_metadata
RECURSIVE ScanVersion(_, _, _)
ScanVersion(frontmatter_lines, i, in_metadata) ==
  IF i > Len(frontmatter_lines) THEN None
  ELSE LET line == frontmatter_lines[i]
       IN  IF Strip(line) = s_metadata \o <<":">>
           THEN ScanVersion(frontmatter_lines, i + 1, TRUE)
           ELSE IF ~in_metadata
           THEN ScanVersion(frontmatter_lines, i + 1, FALSE)
           ELSE IF ~Indented(line)
           THEN ScanVersion(frontmatter_lines, i + 1, FALSE)
           ELSE IF ~Contains(line, ":")
           THEN ScanVersion(frontmatter_lines, i + 1, TRUE)
           ELSE IF Strip(SplitColon(line).key) = s_version
           THEN normalize_value(Strip(SplitColon(line).raw_value))
           ELSE ScanVersion(frontmatter_lines, i + 1, TRUE)

parse_metadata_version(frontmatter_lines) == ScanVersion(frontmatter_lines, 1, FALSE)

\* the value of a JSON document as json.loads returns it, by Python type; a dict
\* holds its members in the order of the document
PyNone == [type |-> "NoneType"]
PyStr(value) == [type |-> "str", value |-> value]
\* an int holds its decimal digits
PyInt(value) == [type |-> "int", value |-> value]
PyList(items) == [type |-> "list", items |-> items]
PyDict(items) == [type |-> "dict", items |-> items]
Member(key, value) == [key |-> key, value |-> value]

\* dct.get(key): the last member named key, or None
DictGet(dct, key) ==
  LET at == {i \in 1..Len(dct.items) : dct.items[i].key = key}
  IN  IF at = {} THEN PyNone
      ELSE dct.items[CHOOSE i \in at : \A j \in at : j <= i].value

\* read_marketplace(skill_dir) for the marketplace.json beside the file: it is
\* missing, unreadable, not JSON, or JSON with a value
read_marketplace(sidecar) ==
  IF sidecar.state = "json" THEN sidecar.value ELSE PyDict(<<>>)

EXCLUDED_DIRS == { <<"t", "e", "m", "p", "l", "a", "t", "e">> }

\* is_excluded(path) for path = dir/SKILL.md below ROOT
is_excluded(dir) == \E i \in 1..Len(dir) : dir[i] \in EXCLUDED_DIRS

\* the files build_catalog and main iterate over
skill_files == {dir \in DOMAIN fs : ~is_excluded(dir)}

\* the orders in which rglob may yield them
DiscoveryOrders ==
  {order \in [1..Cardinality(skill_files) -> skill_files] :
     \A i, j \in 1..Cardinality(skill_files) : order[i] = order[j] => i = j}

\* skill_file.parent.relative_to(ROOT).as_posix()
PosixPath(dir) == Join(dir, <<"/">>)

ErrMissingFields == "missing required frontmatter fields"

\* a variant that asks the sidecar first
ResolveVersion_sidecar_first(metadata_version, marketplace) ==
  IF DictGet(marketplace, "version").type = "str"
  THEN Some(DictGet(marketplace, "version").value)
  ELSE IF ~Falsy(metadata_version) THEN metadata_version
  ELSE None

\* the "version" key of the entry, None when the entry has none
ResolveVersion(metadata_version, marketplace) ==
  IF ~Falsy(metadata_version) THEN metadata_version
  ELSE IF DictGet(marketplace, "version").type = "str"
  THEN Some(DictGet(marketplace, "version").value)
  ELSE None

Raise(type, file, message) ==
  [raised |-> TRUE, error |-> [type |-> type, file |-> file, message |-> message]]

\* one pass of build_catalog's loop body, for the file dir/SKILL.md: the
\* exception it raises, or the entry it appends
EntryOf(dir) ==
  With(read_text(fs[dir].bytes), LAMBDA text :
  IF text = None THEN Raise("UnicodeDecodeError", None, "invalid start byte")
  ELSE
  With(parse_frontmatter(SplitLines(text[1])), LAMBDA got :
  IF got.err # None THEN Raise("ValueError", Some(dir), got.err[1])
  ELSE
  With(parse_frontmatter_fields(got.parsed[1].frontmatter_lines).fields, LAMBDA fields :
  LET frontmatter_lines == got.parsed[1].frontmatter_lines
      name == Get(fields, s_name)
      description == Get(fields, s_description)
      license_name == Get(fields, s_license)
      compatibility == Get(fields, s_compatibility)
  IN  IF Falsy(name) \/ Falsy(description)
      THEN Raise("ValueError", Some(dir), ErrMissingFields)
      ELSE
      LET metadata_version == parse_metadata_version(frontmatter_lines)
          marketplace == read_marketplace(fs[dir].marketplace)
      IN  IF marketplace.type # "dict"
          THEN Raise("AttributeError", None, "object has no attribute 'get'")
          ELSE
          LET tags == DictGet(marketplace, "tags")
          IN  [raised |-> FALSE,
               entry |->
                 [name |-> name[1],
                  description |-> description[1],
                  path |-> PosixPath(dir),
                  version |-> ResolveVersion(metadata_version, marketplace),
                  license |-> IF Falsy(license_name) THEN None ELSE license_name,
                  compatibility |-> IF Falsy(compatibility) THEN None
                                    ELSE compatibility,
                  tags |-> IF tags.type = "list" /\ tags.items # <<>>
                           THEN Some(tags.items) ELSE None]])))

\* entries with entry put behind the last one whose name is not greater
Insert(entries, entry) ==
  LET before == {i \in 1..Len(entries) : ~StrLess(entry.name, entries[i].name)}
      k == IF before = {} THEN 0 ELSE CHOOSE i \in before : \A j \in before : j <= i
  IN  SubSeq(entries, 1, k) \o <<entry>> \o SubSeq(entries, k + 1, Len(entries))

\* a variant that leaves the entries in discovery order
SortByName_unsorted(entries) == entries

\* catalog_entries.sort(key=lambda item: item["name"]): stable, ascending
RECURSIVE SortByName(_)
SortByName(entries) ==
  IF Len(entries) = 0 THEN <<>>
  ELSE Insert(SortByName(SubSeq(entries, 1, Len(entries) - 1)), entries[Len(entries)])

\* the passes of build_catalog's loop over the files in this order
RECURSIVE Passes(_)
Passes(order) ==
  IF Len(order) = 0 THEN <<>>
  ELSE <<EntryOf(order[1])>> \o Passes(SubSeq(order, 2, Len(order)))

\* the entries the passes appended
RECURSIVE Entries(_)
Entries(passes) ==
  IF Len(passes) = 0 THEN <<>>
  ELSE <<passes[1].entry>> \o Entries(SubSeq(passes, 2, Len(passes)))

\* a variant that skips a file it cannot use instead of raising
build_catalog_skipping(order) ==
  With(Passes(order), LAMBDA passes :
    [raised |-> FALSE,
     catalog |-> [skills |->
       SortByName(Entries(SelectSeq(passes, LAMBDA pass : ~pass.raised)))]])

\* build_catalog() when the files are discovered in this order
build_catalog(order) ==
  With(Passes(order), LAMBDA passes :
    LET failed == {i \in 1..Len(passes) : passes[i].raised}
    IN  IF failed # {}
        THEN [raised |-> TRUE,
              error |-> passes[CHOOSE i \in failed : \A j \in failed : i <= j].error]
        ELSE [raised |-> FALSE, catalog |-> [skills |-> SortByName(Entries(passes))]])

\* json.dumps of one character of a str (ensure_ascii changes no ASCII character)
EscapeChar(c) ==
  IF c = "\"" THEN <<"\\", "\"">>
  ELSE IF c = "\\" THEN <<"\\", "\\">>
  ELSE IF c = "\n" THEN <<"\\", "n">>
  ELSE IF c = "\r" THEN <<"\\", "r">>
  ELSE IF c = "\t" THEN <<"\\", "t">>
  ELSE <<c>>

\* the characters json.dumps writes as an escape
Escaped == {"\"", "\\", "\n", "\r", "\t"}

RECURSIVE Escape(_)
Escape(value) ==
  LET at == {i \in 1..Len(value) : value[i] \in Escaped}
  IN  IF at = {} THEN value
      ELSE LET i == CHOOSE i \in at : \A j \in at : i <= j
           IN  SubSeq(value, 1, i - 1) \o EscapeChar(value[i])
               \o Escape(SubSeq(value, i + 1, Len(value)))

\* json.dumps of a str
JsonString(value) == <<"\"">> \o Escape(value) \o <<"\"">>

Spaces(n) == Rep(" ", n)

\* json.dumps of a str or an int
JsonScalar(value) ==
  IF value.type = "str" THEN JsonString(value.value) ELSE value.value

\* json.dumps of a non-empty list of scalars whose brackets are at indent n
JsonList(items, n) ==
  <<"[", "\n">>
  \o Join([i \in 1..Len(items) |-> Spaces(n + 2) \o JsonScalar(items[i])], <<",", "\n">>)
  \o <<"\n">> \o Spaces(n) \o <<"]">>

s_skills == <<"s", "k", "i", "l", "l", "s">>
s_path == <<"p", "a", "t", "h">>
s_tags == <<"t", "a", "g", "s">>

\* json.dumps of an entry whose braces are at indent n: its keys in the order
\* build_catalog sets them
JsonEntry(entry, n) ==
  LET Pair(key, text) == <<Spaces(n + 2) \o JsonString(key) \o <<":", " ">> \o text>>
      Opt(key, value) == IF value = None THEN <<>> ELSE Pair(key, JsonString(value[1]))
      members ==
        Pair(s_name, JsonString(entry.name))
        \o Pair(s_description, JsonString(entry.description))
        \o Pair(s_path, JsonString(entry.path))
        \o Opt(s_version, entry.version)
        \o Opt(s_license, entry.license)
        \o Opt(s_compatibility, entry.compatibility)
        \o (IF entry.tags = None THEN <<>> ELSE Pair(s_tags, JsonList(entry.tags[1], n + 2)))
  IN  <<"{", "\n">> \o Join(members, <<",", "\n">>) \o <<"\n">> \o Spaces(n) \o <<"}">>

\* json.dumps(catalog, indent=2)
JsonDumps(catalog) ==
  LET skills == catalog.skills
  IN  <<"{", "\n">> \o Spaces(2) \o JsonString(s_skills) \o <<":", " ">>
      \o (IF skills = <<>> THEN <<"[", "]">>
          ELSE <<"[", "\n">>
               \o Join([i \in 1..Len(skills) |-> Spaces(4) \o JsonEntry(skills[i], 4)],
                       <<",", "\n">>)
               \o <<"\n">> \o Spaces(2) \o <<"]">>)
      \o <<"\n", "}">>

\* a variant of main that rewrites a stale artifact in check mode
main_check_rewrites(check, order) ==
  With(build_catalog(order), LAMBDA built :
    LET Run(exit, file) ==
          [run |-> [op |-> "main", check |-> check, order |-> order, built |-> built,
                    exit |-> exit],
           file |-> file]
    IN  IF built.raised THEN Run(1, artifact)
        ELSE
        With(JsonDumps(built.catalog) \o <<"\n">>, LAMBDA content :
          IF check
          THEN IF artifact = None THEN Run(1, artifact)
               ELSE IF read_text(artifact[1]) = None THEN Run(1, artifact)
               ELSE IF read_text(artifact[1])[1] # content THEN Run(1, Some(Some(content)))
               ELSE Run(0, artifact)
          ELSE Run(0, Some(Some(content)))))

\* main() with or without --check when the files are discovered in this order:
\* the exit status of the process (1 for an exception that propagates) and what
\* skills.json holds afterwards
main(check, order) ==
  With(build_catalog(order), LAMBDA built :
    LET Run(exit, file) ==
          [run |-> [op |-> "main", check |-> check, order |-> order, built |-> built,
                    exit |-> exit],
           file |-> file]
    IN  IF built.raised THEN Run(1, artifact)
        ELSE
        With(JsonDumps(built.catalog) \o <<"\n">>, LAMBDA content :
          IF check
          THEN IF artifact = None THEN Run(1, artifact)
               ELSE IF read_text(artifact[1]) = None THEN Run(1, artifact)
               ELSE IF read_text(artifact[1])[1] # content THEN Run(1, artifact)
               ELSE Run(0, artifact)
          ELSE Run(0, Some(Some(content)))))

-----------------------------------------------------------------------------
(* Calls of parse_frontmatter on bounded line sequences *)

MaxLines == 4

s_demo == <<"d", "e", "m", "o">>

KeyValue(key, value) == key \o <<":", " ">> \o value

\* the lines a document is made of: a marker, a marker with blanks around it,
\* a field, a blank line, a line that only resembles a marker
ParseLines ==
  { Marker,
    <<" ">> \o Marker \o <<"\t">>,
    KeyValue(s_name, s_demo),
    <<>>,
    <<"-", "-", "-", "-">> }

SeqsUpTo(S, n) == UNION {[1..k -> S] : k \in 0..n}

NoCall == [op |-> "none"]

InitParse ==
  /\ fs = <<>>
  /\ artifact = None
  /\ arg \in SeqsUpTo(ParseLines, MaxLines)
  /\ ret = NoCall

CallParseFrontmatter ==
  /\ ret = NoCall
  /\ ret' = [op |-> "parse_frontmatter", out |-> parse_frontmatter(arg)]
  /\ UNCHANGED <<fs, artifact, arg>>

NextParse == CallParseFrontmatter

SpecParse == InitParse /\ [][NextParse]_vars

\* C2: parse_frontmatter returns the opening-delimiter error exactly when the
\* sequence is empty or its first line, trimmed, is not the marker; otherwise the
\* closing-delimiter error exactly when no later line, trimmed, is the marker;
\* otherwise it succeeds with the lines strictly between the first line and the
\* first later marker line k as the metadata block and the lines after k as the
\* content, so that no line of the metadata block is a marker line.
C2_ParseFrontmatter ==
  ret.op = "parse_frontmatter" =>
    LET out == ret.out
        n == Len(arg)
        noOpening == n = 0 \/ Strip(arg[1]) # Marker
        later == {i \in 2..n : Strip(arg[i]) = Marker}
    IN  /\ (out.err = Some(ErrOpening)) <=> noOpening
        /\ (out.err = Some(ErrClosing)) <=> (~noOpening /\ later = {})
        /\ (out.err # None) <=> (out.parsed = None)
        /\ (~noOpening /\ later # {}) =>
             \E k \in later :
               /\ \A j \in later : k <= j
               /\ out.err = None
               /\ Len(out.parsed) = 1
               /\ out.parsed[1].frontmatter_lines = [i \in 1..(k - 2) |-> arg[i + 1]]
               /\ out.parsed[1].body_lines = [i \in 1..(n - k) |-> arg[k + i]]
               /\ \A i \in 1..Len(out.parsed[1].frontmatter_lines) :
                    Strip(out.parsed[1].frontmatter_lines[i]) # Marker

\* a document with two later marker lines parsed: the block stops at the first
C2_Witness ==
  /\ ret.op = "parse_frontmatter"
  /\ ret.out.err = None
  /\ Len(arg) = 4
  /\ Strip(arg[3]) = Marker
  /\ Strip(arg[4]) = Marker
  /\ Len(ret.out.parsed[1].frontmatter_lines) = 1
  /\ Len(ret.out.parsed[1].body_lines) = 1

-----------------------------------------------------------------------------
(* Calls of validate_skill on bounded documents *)

\* by how much an over-long value exceeds its limit
Over == 1

s_Demo_Skill == <<"D", "e", "m", "o", "_", "S", "k", "i", "l", "l">>
s_ok == <<"o", "k">>

Quoted(value) == <<"\"">> \o value \o <<"\"">>

\* a field line, or no line, per choice
NameChoices ==
  { <<>>,
    <<KeyValue(s_name, s_demo)>>,
    <<KeyValue(s_name, Quoted(s_demo))>>,
    <<KeyValue(s_name, s_Demo_Skill)>>,
    <<s_name \o <<":">> >>,
    <<KeyValue(s_name, Rep("a", MAX_NAME_LENGTH))>>,
    <<KeyValue(s_name, Rep("a", MAX_NAME_LENGTH + Over))>> }

DescriptionChoices ==
  { <<>>,
    <<KeyValue(s_description, s_ok)>>,
    <<KeyValue(s_description, <<"|">>)>>,
    <<KeyValue(s_description, Rep("d", MAX_DESC_LENGTH))>>,
    <<KeyValue(s_description, Rep("d", MAX_DESC_LENGTH + Over))>> }

CompatibilityChoices ==
  { <<>>,
    <<KeyValue(s_compatibility, s_ok)>>,
    <<KeyValue(s_compatibility, <<"'", "'">>)>>,
    <<KeyValue(s_compatibility, Rep("c", MAX_COMPAT_LENGTH))>>,
    <<KeyValue(s_compatibility, Rep("c", MAX_COMPAT_LENGTH + Over))>> }

\* lines after the fields: none, a second name line that wins, an indented line
TrailerChoices ==
  { <<>>,
    <<s_name \o <<":">> >>,
    << <<" ", " ">> \o KeyValue(s_name, s_ok) >> }

BodyChoices ==
  { <<>>,
    << <<>>, <<" ", "\t">> >>,
    << <<>>, <<"#", " ", "T">> >> }

LineEnds == { <<"\n">>, <<"\r", "\n">> }

ValidateDirs ==
  { <<s_skills, s_demo>>,
    <<s_skills, s_Demo_Skill>>,
    <<s_skills, Rep("a", MAX_NAME_LENGTH)>> }

\* the text of a file: its lines, each ended by eol
Text(lines, eol) == Join([i \in 1..Len(lines) |-> lines[i] \o eol], <<>>)

ValidateTexts ==
  { Text(<<Marker>> \o n \o d \o c \o t \o <<Marker>> \o b, eol) :
      n \in NameChoices, d \in DescriptionChoices, c \in CompatibilityChoices,
      t \in {<<>>}, b \in BodyChoices, eol \in LineEnds }
  \cup
  { Text(<<Marker>> \o n \o <<KeyValue(s_description, s_ok)>> \o t \o <<Marker>> \o b, <<"\n">>) :
      n \in NameChoices, t \in TrailerChoices, b \in BodyChoices }
  \cup
  { Text(lines, <<"\n">>) :
      lines \in { <<KeyValue(s_name, s_demo), Marker, <<"#", " ", "T">> >>,
                  <<Marker, KeyValue(s_name, s_demo), KeyValue(s_description, s_ok)>>,
                  <<>> } }

NoSidecar == [state |-> "missing"]

File(bytes, marketplace) == [bytes |-> bytes, marketplace |-> marketplace]

InitValidate ==
  /\ \E dir \in ValidateDirs, bytes \in {Undecodable} \cup {Some(t) : t \in ValidateTexts} :
       fs = [d \in {dir} |-> File(bytes, NoSidecar)]
  /\ artifact = None
  /\ arg = <<>>
  /\ ret = NoCall

CallValidateSkill ==
  /\ ret = NoCall
  /\ \E dir \in DOMAIN fs :
       ret' = [op |-> "validate_skill", dir |-> dir,
               errors |-> validate_skill(dir, fs[dir].bytes)]
  /\ UNCHANGED <<fs, artifact, arg>>

NextValidate == CallValidateSkill

SpecValidate == InitValidate /\ [][NextValidate]_vars

\* the record validate_skill was called on, as its rules see it: None when the
\* file does not decode or its block does not parse, else the fields and the body
Validated == ret.op = "validate_skill"

ViewOf(bytes) ==
  LET text == read_text(bytes)
  IN  IF text = None THEN None
      ELSE LET got == parse_frontmatter(SplitLines(text[1]))
           IN  IF got.err # None THEN None
               ELSE LET table == parse_frontmatter_fields(got.parsed[1].frontmatter_lines)
                    IN  Some([present |-> table.present,
                              name |-> Get(table.fields, s_name),
                              description |-> Get(table.fields, s_description),
                              compatibility |-> Get(table.fields, s_compatibility),
                              body |-> got.parsed[1].body_lines])

NonEmpty(value) == value # None /\ value[1] # <<>>

Reports(errors, error) == \E i \in 1..Len(errors) : errors[i] = error

\* lowercase-alphanumeric segments joined by single hyphens
Segmented(v) ==
  /\ v # <<>>
  /\ \A i \in 1..Len(v) :
       \/ v[i] \in Lower \cup Digit
       \/ /\ v[i] = "-"
          /\ 1 < i /\ i < Len(v)
          /\ v[i - 1] # "-" /\ v[i + 1] # "-"

Blank(line) == \A i \in 1..Len(line) : line[i] \in Whitespace

HasContent(body) == \E i \in 1..Len(body) : ~Blank(body[i])

\* the claim's well-formed input: both markers, non-empty name, description, content
WellFormedAsClaimed(view) ==
  /\ view # None
  /\ NonEmpty(view[1].name)
  /\ NonEmpty(view[1].description)
  /\ HasContent(view[1].body)

\* C1 as stated: every document with an opening marker, a closing marker, a
\* non-empty name, a non-empty description and non-empty content validates with
\* an empty error list.
C1_Original ==
  Validated =>
    LET view == ViewOf(fs[ret.dir].bytes)
    IN  WellFormedAsClaimed(view) => ret.errors = <<>>

\* C1, amended: such a document validates with an empty error list when also its
\* name is at most 64 characters, is lowercase-alphanumeric segments joined by
\* single hyphens and equals the parent directory name, its description is at
\* most 1024 characters, and its compatibility is absent or non-empty and at most
\* 500 characters.
C1_WellFormedValidates ==
  Validated =>
    LET view == ViewOf(fs[ret.dir].bytes)
    IN  ( /\ WellFormedAsClaimed(view)
          /\ Len(view[1].name[1]) <= 64
          /\ Segmented(view[1].name[1])
          /\ view[1].name[1] = ret.dir[Len(ret.dir)]
          /\ Len(view[1].description[1]) <= 1024
          /\ s_compatibility \in view[1].present =>
               NonEmpty(view[1].compatibility) /\ Len(view[1].compatibility[1]) <= 500 )
        => ret.errors = <<>>

\* a record at the limits (a 64-character name, a 1024-character description, a
\* 500-character compatibility) was validated and has no error
C1_Witness ==
  /\ Validated
  /\ LET view == ViewOf(fs[ret.dir].bytes)
     IN  /\ WellFormedAsClaimed(view)
         /\ Len(view[1].name[1]) = 64
         /\ view[1].name[1] = ret.dir[Len(ret.dir)]
         /\ Len(view[1].description[1]) = 1024
         /\ NonEmpty(view[1].compatibility)
         /\ Len(view[1].compatibility[1]) = 500
  /\ ret.errors = <<>>

\* C3: for a record whose frontmatter block parses, each rule's errors are in the
\* result exactly when that rule's own input violates it, whatever the other rules
\* find: the name rule reads the name and the directory name, the description
\* rule the description, the compatibility rule the compatibility, the content
\* rule the stripped body.  A present, non-empty name that fails the pattern and
\* differs from the directory name has both the format and the mismatch error.
C3_RulesIndependent ==
  Validated =>
    LET view == ViewOf(fs[ret.dir].bytes)
        Has(key) == key \in view[1].present
        name == view[1].name
        description == view[1].description
        compatibility == view[1].compatibility
        Said(error) == Reports(ret.errors, error)
    IN  view # None =>
          /\ Said(ErrNameMissing) <=> ~Has(s_name)
          /\ Said(ErrNameEmpty) <=> (Has(s_name) /\ ~NonEmpty(name))
          /\ Said(ErrNameLength) <=> (NonEmpty(name) /\ Len(name[1]) > 64)
          /\ Said(ErrNameFormat) <=> (NonEmpty(name) /\ ~Segmented(name[1]))
          /\ Said(ErrNameDirectory) <=>
               (NonEmpty(name) /\ name[1] # ret.dir[Len(ret.dir)])
          /\ Said(ErrDescMissing) <=> ~Has(s_description)
          /\ Said(ErrDescEmpty) <=> (Has(s_description) /\ ~NonEmpty(description))
          /\ Said(ErrDescLength) <=> (NonEmpty(description) /\ Len(description[1]) > 1024)
          /\ Said(ErrCompatEmpty) <=> (Has(s_compatibility) /\ ~NonEmpty(compatibility))
          /\ Said(ErrCompatLength) <=>
               (NonEmpty(compatibility) /\ Len(compatibility[1]) > 500)
          /\ Said(ErrBody) <=> ~HasContent(view[1].body)
          /\ ~Said(ErrRead) /\ ~Said(ErrOpening) /\ ~Said(ErrClosing)

\* a record that violates all four rules at once, its name failing both the
\* pattern and the directory match, was validated and reports five errors
C3_Witness ==
  /\ Validated
  /\ LET view == ViewOf(fs[ret.dir].bytes)
     IN  /\ view # None
         /\ NonEmpty(view[1].name)
         /\ ~Segmented(view[1].name[1])
         /\ view[1].name[1] # ret.dir[Len(ret.dir)]
         /\ s_description \notin view[1].present
         /\ s_compatibility \in view[1].present /\ ~NonEmpty(view[1].compatibility)
         /\ ~HasContent(view[1].body)
  /\ ret.errors = <<ErrNameFormat, ErrNameDirectory, ErrDescMissing, ErrCompatEmpty, ErrBody>>

-----------------------------------------------------------------------------
(* Calls of parse_metadata_version on bounded metadata blocks *)

MaxBlock == 3

s_other == <<"o", "t", "h", "e", "r">>

Indent(line) == <<" ", " ">> \o line

\* the lines of a block: the metadata key at the top level and nested, a version
\* pair nested and at the top level, one without a value, another key, a blank
BlockLines ==
  { s_metadata \o <<":">>,
    Indent(s_metadata \o <<":">>),
    Indent(KeyValue(s_version, <<"1", ".", "0">>)),
    KeyValue(s_version, <<"2", ".", "0">>),
    Indent(s_version \o <<":">>),
    s_other \o <<":">>,
    <<>> }

InitVersion ==
  /\ fs = <<>>
  /\ artifact = None
  /\ arg \in SeqsUpTo(BlockLines, MaxBlock)
  /\ ret = NoCall

CallParseMetadataVersion ==
  /\ ret = NoCall
  /\ ret' = [op |-> "parse_metadata_version", out |-> parse_metadata_version(arg)]
  /\ UNCHANGED <<fs, artifact, arg>>

NextVersion == CallParseMetadataVersion

SpecVersion == InitVersion /\ [][NextVersion]_vars

\* a non-indented line that is the metadata key
TopLevelMetadata(line) == ~Indented(line) /\ Strip(line) = s_metadata \o <<":">>

\* an indented "version: value" line
NestedVersion(line) ==
  /\ Indented(line)
  /\ Contains(line, ":")
  /\ Strip(SubSeq(Strip(line), 1, Find(Strip(line), ":") - 1)) = s_version

\* C10: parse_metadata_version returns a value only if that value is the
\* normalized value of an indented version line that follows a top-level
\* (non-indented) "metadata:" line with only indented lines in between; it returns
\* absent otherwise, as when "metadata:" appears only indented under another key.
C10_TopLevelMetadataOnly ==
  (ret.op = "parse_metadata_version" /\ ret.out # None) =>
    \E i \in 1..Len(arg), j \in 1..Len(arg) :
      /\ i < j
      /\ TopLevelMetadata(arg[i])
      /\ \A k \in (i + 1)..j : Indented(arg[k])
      /\ NestedVersion(arg[j])
      /\ ret.out = normalize_value(Strip(SplitColon(arg[j]).raw_value))

-----------------------------------------------------------------------------
(* Calls of build_catalog on one file with bounded frontmatter and sidecar *)

s_x == <<"x">>
s_MIT == <<"M", "I", "T">>
s_1_0 == <<"1", ".", "0">>
s_1_1 == <<"1", ".", "1">>
s_2_0 == <<"2", ".", "0">>

\* the nested metadata of a block: none, a version, a quoted one after another
\* key, an empty quoted one, one without a value
MetadataChoices ==
  { <<>>,
    <<s_metadata \o <<":">>, Indent(KeyValue(s_version, s_1_0))>>,
    <<s_metadata \o <<":">>, Indent(KeyValue(s_other, s_x)),
      Indent(KeyValue(s_version, <<"'">> \o s_1_1 \o <<"'">>))>>,
    <<s_metadata \o <<":">>, Indent(KeyValue(s_version, Quoted(<<>>)))>>,
    <<s_metadata \o <<":">>, Indent(s_version \o <<":">>)>> }

LicenseChoices ==
  { <<>>,
    <<KeyValue(s_license, s_MIT), KeyValue(s_compatibility, s_ok)>> }

Json(value) == [state |-> "json", value |-> value]

\* the marketplace.json beside the file
Sidecars ==
  { NoSidecar,
    [state |-> "unreadable"],
    [state |-> "malformed"],
    Json(PyDict(<<>>)),
    Json(PyDict(<<Member("version", PyStr(s_2_0))>>)),
    Json(PyDict(<<Member("version", PyInt(<<"2">>))>>)),
    Json(PyDict(<<Member("version", PyStr(<<>>)), Member("tags", PyList(<<>>))>>)),
    Json(PyDict(<<Member("version", PyStr(s_2_0)),
                  Member("tags", PyList(<<PyStr(s_x), PyStr(s_ok)>>))>>)),
    Json(PyDict(<<Member("tags", PyStr(s_x))>>)),
    Json(PyList(<<>>)),
    Json(PyStr(s_2_0)),
    Json(PyInt(<<"7">>)),
    Json(PyNone) }

EntryTexts ==
  { Text(<<Marker, KeyValue(s_name, s_demo), KeyValue(s_description, s_ok)>>
         \o m \o l \o <<Marker, <<"#", " ", "T">> >>, <<"\n">>) :
      m \in MetadataChoices, l \in LicenseChoices }

InitEntry ==
  /\ \E t \in EntryTexts, sidecar \in Sidecars :
       fs = [d \in {<<s_skills, s_demo>>} |-> File(Some(t), sidecar)]
  /\ artifact = None
  /\ arg = <<>>
  /\ ret = NoCall

CallBuildCatalog ==
  /\ ret = NoCall
  /\ \E order \in DiscoveryOrders :
       ret' = [op |-> "build_catalog", order |-> order, out |-> build_catalog(order)]
  /\ UNCHANGED <<fs, artifact, arg>>

NextEntry == CallBuildCatalog

SpecEntry == InitEntry /\ [][NextEntry]_vars

\* what the builder asks of a file: its block parses and it has a name and a
\* description
Buildable(dir) ==
  LET view == ViewOf(fs[dir].bytes)
  IN  view # None /\ NonEmpty(view[1].name) /\ NonEmpty(view[1].description)

\* C7: whatever the sidecar is (missing, unreadable, not parseable, or parseable
\* to any value, an object or not), a file with valid frontmatter produces its
\* catalog entry and build_catalog does not fail.
C7_SidecarNeverBlocks ==
  (ret.op = "build_catalog" /\ \A dir \in skill_files : Buildable(dir)) =>
    /\ ~ret.out.raised
    /\ \A dir \in skill_files :
         \E i \in 1..Len(ret.out.catalog.skills) :
           ret.out.catalog.skills[i].path = PosixPath(dir)

\* the nested metadata version and the sidecar of the file an entry comes from
FileOf(entry) == CHOOSE dir \in skill_files : PosixPath(dir) = entry.path
NestedVersionOf(dir) ==
  parse_metadata_version(
    parse_frontmatter(SplitLines(read_text(fs[dir].bytes)[1])).parsed[1].frontmatter_lines)
SidecarVersion(sidecar) ==
  IF sidecar.state = "json" /\ sidecar.value.type = "dict"
  THEN DictGet(sidecar.value, "version")
  ELSE PyNone

\* C8 as stated: when the nested metadata version has a value, the entry's
\* version is that value; otherwise, when the sidecar's version is a string, that
\* string; otherwise the entry has no version.
C8_Original ==
  (ret.op = "build_catalog" /\ ~ret.out.raised) =>
    \A i \in 1..Len(ret.out.catalog.skills) :
      LET entry == ret.out.catalog.skills[i]
          nested == NestedVersionOf(FileOf(entry))
          sidecar == SidecarVersion(fs[FileOf(entry)].marketplace)
      IN  entry.version = IF nested # None THEN nested
                          ELSE IF sidecar.type = "str" THEN Some(sidecar.value)
                          ELSE None

\* C8, amended: when the nested metadata version has a non-empty value, the
\* entry's version is that value whatever the sidecar says; otherwise (absent, or
\* the empty string of a value written "" or ''), when the sidecar's version is a
\* string, that string; otherwise the entry has no version.
C8_VersionPriority ==
  (ret.op = "build_catalog" /\ ~ret.out.raised) =>
    \A i \in 1..Len(ret.out.catalog.skills) :
      LET entry == ret.out.catalog.skills[i]
          nested == NestedVersionOf(FileOf(entry))
          sidecar == SidecarVersion(fs[FileOf(entry)].marketplace)
      IN  entry.version = IF nested # None /\ nested[1] # <<>> THEN nested
                          ELSE IF sidecar.type = "str" THEN Some(sidecar.value)
                          ELSE None

\* an entry was built from a file whose nested version is 1.0 and whose sidecar
\* says 2.0: it has the nested one
C8_Witness ==
  /\ ret.op = "build_catalog"
  /\ ~ret.out.raised
  /\ Len(ret.out.catalog.skills) = 1
  /\ NestedVersionOf(FileOf(ret.out.catalog.skills[1])) = Some(s_1_0)
  /\ SidecarVersion(fs[FileOf(ret.out.catalog.skills[1])].marketplace) = PyStr(s_2_0)
  /\ ret.out.catalog.skills[1].version = Some(s_1_0)

-----------------------------------------------------------------------------
(* Runs of the generator on a bounded tree of files *)

MaxFiles == 2

s_extra == <<"e", "x", "t", "r", "a">>
s_template == <<"t", "e", "m", "p", "l", "a", "t", "e">>

CatalogDirs ==
  { <<s_skills, <<"a">> >>,
    <<s_extra, <<"a">> >>,
    <<s_template, <<"a">> >> }

Skill(name) ==
  Text(<<Marker, KeyValue(s_name, name), KeyValue(s_description, s_ok), Marker,
         <<"#", " ", "T">> >>, <<"\n">>)

\* files the builder takes, named b, a, B and ab, and files it cannot use: one
\* without a closing marker, one without a description, one that does not decode
CatalogFiles ==
  { File(Some(Skill(<<"b">>)), NoSidecar),
    File(Some(Skill(<<"a">>)), NoSidecar),
    File(Some(Skill(<<"B">>)), NoSidecar),
    File(Some(Skill(<<"a", "b">>)), NoSidecar),
    File(Some(Text(<<Marker, KeyValue(s_name, <<"a">>), KeyValue(s_description, s_ok)>>,
                   <<"\n">>)), NoSidecar),
    File(Some(Text(<<Marker, KeyValue(s_name, <<"a">>), s_description \o <<":">>, Marker,
                     <<"#", " ", "T">> >>, <<"\n">>)), NoSidecar),
    File(Undecodable, NoSidecar) }

Trees ==
  UNION { [dirs -> CatalogFiles] :
            dirs \in {D \in SUBSET CatalogDirs : Cardinality(D) <= MaxFiles} }

EmptyCatalogText == JsonDumps([skills |-> <<>>]) \o <<"\n">>

InitCatalog ==
  /\ fs \in Trees
  /\ artifact \in {None, Some(Undecodable), Some(Some(EmptyCatalogText))}
  /\ arg = <<>>
  /\ ret = NoCall

\* the generator runs, with or without --check
Main ==
  /\ ret = NoCall
  /\ \E check \in BOOLEAN, order \in DiscoveryOrders :
       \E out \in {main(check, order)} :
         /\ ret' = out.run
         /\ artifact' = out.file
  /\ UNCHANGED <<fs, arg>>

\* the process ends
Exit ==
  /\ ret # NoCall
  /\ ret' = NoCall
  /\ UNCHANGED <<fs, artifact, arg>>

\* text with each "\n" replaced by "\r\n"
RECURSIVE WithCRLF(_)
WithCRLF(t) ==
  IF ~Contains(t, "\n") THEN t
  ELSE LET i == Find(t, "\n")
       IN  SubSeq(t, 1, i - 1) \o <<"\r", "\n">> \o WithCRLF(SubSeq(t, i + 1, Len(t)))

\* between runs, a tool stores skills.json with CRLF line ends
ConvertLineEnds ==
  /\ ret = NoCall
  /\ artifact # None
  /\ artifact[1] # Undecodable
  /\ ~Contains(artifact[1][1], "\r")
  /\ artifact' = Some(Some(WithCRLF(artifact[1][1])))
  /\ UNCHANGED <<fs, arg, ret>>

NextCatalog == Main \/ Exit \/ ConvertLineEnds

SpecCatalog == InitCatalog /\ [][NextCatalog]_vars

\* what the file dir/SKILL.md holds, seen without the builder: whether it
\* decodes, whether its delimiters are there, and its name and description
Seen(dir) ==
  LET bytes == fs[dir].bytes
      lines == IF bytes = Undecodable THEN <<>> ELSE SplitLines(TranslateNewlines(bytes[1]))
      got == parse_frontmatter(lines)
      found == IF got.err # None THEN [fields |-> <<>>, present |-> {}]
               ELSE parse_frontmatter_fields(got.parsed[1].frontmatter_lines)
  IN  [decodes |-> bytes # Undecodable,
       delimited |-> /\ Len(lines) > 0
                     /\ Strip(lines[1]) = Marker
                     /\ \E i \in 2..Len(lines) : Strip(lines[i]) = Marker,
       name |-> IF got.err # None THEN None ELSE Get(found.fields, s_name),
       description |-> IF got.err # None THEN None ELSE Get(found.fields, s_description)]

\* the file has one of the defects the builder reports by name
Defective(dir) ==
  LET seen == Seen(dir)
  IN  /\ seen.decodes
      /\ \/ ~seen.delimited
         \/ seen.name \in {None, Some(<<>>)}
         \/ seen.description \in {None, Some(<<>>)}

\* the file parses and has a non-empty name and description
Usable(dir) ==
  LET seen == Seen(dir)
  IN  /\ seen.decodes
      /\ seen.delimited
      /\ seen.name \notin {None, Some(<<>>)}
      /\ seen.description \notin {None, Some(<<>>)}

C5_OrderIndependent ==
  (ret.op = "main" /\ ~ret.built.raised) =>
    \A order \in DiscoveryOrders : build_catalog(order) = ret.built

\* C6, as stated: whenever a discovered file is defective, the build aborts with
\* an error that names that file, returns no catalog, and the run leaves
\* skills.json as it was.
C6_Original ==
  [][ (ret = NoCall /\ ret'.op = "main") =>
        \A dir \in skill_files :
          Defective(dir) =>
            /\ ret'.built.raised
            /\ ret'.built.error.file = Some(dir)
            /\ "catalog" \notin DOMAIN ret'.built
            /\ artifact' = artifact ]_vars

\* C6, amended: whenever a discovered file is defective, the build aborts, the
\* run exits 1, no catalog is returned and skills.json is left as it was; the
\* error is the one of the first file in discovery order that the builder cannot
\* take: a ValueError naming that file when it is defective, a decoding error
\* naming no file when it does not decode.
C6_AbortsOnFirstUnusable ==
  [][ (ret = NoCall /\ ret'.op = "main" /\ \E dir \in skill_files : Defective(dir)) =>
        LET order == ret'.order
            unusable == {i \in 1..Len(order) : ~Usable(order[i])}
            first == CHOOSE i \in unusable : \A j \in unusable : i <= j
        IN  /\ ret'.built.raised
            /\ ret'.exit = 1
            /\ "catalog" \notin DOMAIN ret'.built
            /\ artifact' = artifact
            /\ IF Defective(order[first])
               THEN /\ ret'.built.error.type = "ValueError"
                    /\ ret'.built.error.file = Some(order[first])
               ELSE /\ ret'.built.error.type = "UnicodeDecodeError"
                    /\ ret'.built.error.file = None ]_vars

\* a run over two defective files has aborted naming the one discovered first
C6_Witness ==
  /\ ret.op = "main"
  /\ Len(ret.order) = 2
  /\ Defective(ret.order[1])
  /\ Defective(ret.order[2])
  /\ ret.built.raised
  /\ ret.built.error.file = Some(ret.order[1])
  /\ ret.exit = 1

\* what a run that built a catalog compares skills.json with, or writes
Fresh(run) == JsonDumps(run.built.catalog) \o <<"\n">>

\* C9, as stated: a --check run leaves skills.json as it was and exits 0 exactly
\* when the file exists and its bytes are those of the fresh serialization, 1
\* otherwise; only a run without --check writes the file.
C9_Original ==
  [][ (ret = NoCall /\ ret'.op = "main" /\ ret'.check) =>
        /\ artifact' = artifact
        /\ ret'.exit \in {0, 1}
        /\ ret'.exit = 0 <=>
             /\ ~ret'.built.raised
             /\ artifact # None
             /\ artifact[1] = Some(Fresh(ret')) ]_vars

\* C9, amended: a --check run leaves skills.json as it was and exits 0 exactly
\* when the build succeeded, the file exists and decodes, and its text, with
\* every CRLF and CR read as LF, is the fresh serialization; it exits 1
\* otherwise. A run without --check that builds the catalog writes the fresh
\* serialization and exits 0.
C9_CheckNeverWrites ==
  [][ (ret = NoCall /\ ret'.op = "main") =>
        IF ret'.check
        THEN /\ artifact' = artifact
             /\ ret'.exit \in {0, 1}
             /\ ret'.exit = 0 <=>
                  /\ ~ret'.built.raised
                  /\ artifact # None
                  /\ artifact[1] # Undecodable
                  /\ TranslateNewlines(artifact[1][1]) = Fresh(ret')
        ELSE ~ret'.built.raised =>
               /\ artifact' = Some(Some(Fresh(ret')))
               /\ ret'.exit = 0 ]_vars

\* a --check run has exited 0 on a skills.json stored with CRLF line ends, whose
\* bytes are not those of the fresh serialization
C9_Witness ==
  /\ ret.op = "main"
  /\ ret.check
  /\ ret.exit = 0
  /\ artifact # None
  /\ artifact[1] # Undecodable
  /\ Contains(artifact[1][1], "\r")
  /\ artifact[1][1] # Fresh(ret)

=============================================================================
